---- MODULE Spec2Model ----
(***************************************************************************)
(* Model of the dashboard's mutation layer (app/lib/actions.ts), its       *)
(* credentials adapter (auth.ts) and, of the query layer (app/lib/data.ts),*)
(* the paginated invoice queries and the card statistics.                  *)
(*                                                                         *)
(* Text is a tuple of one-character strings, so that parsing, splitting    *)
(* and pattern matching are computed and not assumed.  Numbers are exact   *)
(* decimals in fixed point: the integer v stands for v / Scale (the        *)
(* program computes in IEEE doubles, which add rounding errors of their    *)
(* own to what is shown here).                                             *)
(*                                                                         *)
(* The database is outside the source and so is its schema: a statement    *)
(* succeeds or fails, and when it succeeds the table holds the values the  *)
(* statement was given.                                                    *)
(***************************************************************************)
EXTENDS Integers, Sequences, FiniteSets, TLC

VARIABLES
    invoices,    \* the invoices table: id -> [customer_id, amount, status, date]
    now,         \* the server clock, an ISO-8601 instant (text)
    pc,          \* "idle": no request in progress; "done": a handler has finished
    op,          \* the handler that ran last
    argId,       \* its id argument (0 when it takes none)
    form,        \* its FormData: [customerId, amount, status], each a form value
    creds,       \* authorize's credentials: [email, password], each a form value
    dbOk,        \* whether the database statement of the call succeeded
    signInRes,   \* what signIn did in the last authenticate call
    ret,         \* what the handler did: [kind, message, errors, user]
    effects,     \* the outside calls the handler made, in order
    before,      \* the invoices table when the handler started
    query,       \* the query string of the last read
    page,        \* the page number of the last read
    retRows,     \* the rows fetchFilteredInvoices returned
    retPages,    \* the number fetchInvoicesPages returned
    promises,    \* fetchCardData's queries: name -> [state, rows]
    settled,     \* the names of the queries that completed, in that order
    retCard      \* the record fetchCardData returned

vars == <<invoices, now, pc, op, argId, form, creds, dbOk, signInRes, ret,
          effects, before, query, page, retRows, retPages, promises, settled,
          retCard>>

-----------------------------------------------------------------------------
(* Bounds of the model *)

\* At most this many invoice rows in the mutation layer's table.
MaxInvoices == 2
\* At most this many invoice rows in the tables the queries read.
MaxRows == 13
\* The queries are asked for pages 1 .. MaxPage.
MaxPage == 4

-----------------------------------------------------------------------------
(* Text *)

\* The fixed-point resolution: three decimal places.
Scale == 10 * 10 * 10

Digits == <<"0", "1", "2", "3", "4", "5", "6", "7", "8", "9">>

IsDigit(c) == \E i \in 1..10 : Digits[i] = c

DigitVal(c) == (CHOOSE i \in 1..10 : Digits[i] = c) - 1

UpperCase == <<"A", "D", "E", "I", "L", "M", "N", "P", "T", "Y">>

LowerCase == <<"a", "d", "e", "i", "l", "m", "n", "p", "t", "y">>

\* Case folding, as ILIKE applies it to both sides.
Lower(c) ==
    IF \E i \in 1..Len(UpperCase) : UpperCase[i] = c
    THEN LowerCase[CHOOSE i \in 1..Len(UpperCase) : UpperCase[i] = c]
    ELSE c

\* The index of the first occurrence of c in s, or 0.
IndexOf(s, c) ==
    IF \E i \in 1..Len(s) : s[i] = c
    THEN CHOOSE i \in 1..Len(s) : s[i] = c /\ \A j \in 1..(i - 1) : s[j] # c
    ELSE 0

\* The value of a run of digits.
RECURSIVE DigitsValue(_)
DigitsValue(s) ==
    IF s = <<>> THEN 0
    ELSE 10 * DigitsValue(SubSeq(s, 1, Len(s) - 1)) + DigitVal(s[Len(s)])

AllDigits(s) == \A i \in 1..Len(s) : IsDigit(s[i])

RECURSIVE Pow10(_)
Pow10(n) == IF n = 0 THEN 1 ELSE 10 * Pow10(n - 1)

\* The decimal digits of a natural number.
RECURSIVE NatText(_)
NatText(n) ==
    IF n < 10 THEN <<Digits[n + 1]>>
    ELSE NatText(n \div 10) \o <<Digits[(n % 10) + 1]>>

\* n written with at least w digits (zero padded).
RECURSIVE Pad(_, _)
Pad(s, w) == IF Len(s) >= w THEN s ELSE Pad(<<"0">> \o s, w)

\* A form value: what FormData.get returns, a string or null.
Str(s) == [isNull |-> FALSE, s |-> s]

Null == [isNull |-> TRUE, s |-> <<>>]

-----------------------------------------------------------------------------
(* Numbers *)

NaN == [nan |-> TRUE, v |-> 0]

Num(v) == [nan |-> FALSE, v |-> v]

\* An unsigned decimal literal: digits, optionally a point and more digits.
\* The fixed point holds three decimal places; the inputs of the model stay
\* within them.
UnsignedLiteral(s) ==
    LET dot == IndexOf(s, ".")
        ip  == IF dot = 0 THEN s ELSE SubSeq(s, 1, dot - 1)
        fp  == IF dot = 0 THEN <<>> ELSE SubSeq(s, dot + 1, Len(s))
    IN  IF /\ s # <<>>
           /\ AllDigits(ip) /\ AllDigits(fp)
           /\ ip \o fp # <<>>
           /\ Pow10(Len(fp)) <= Scale
        THEN Num(DigitsValue(ip) * Scale
                 + DigitsValue(fp) * (Scale \div Pow10(Len(fp))))
        ELSE NaN

\* JavaScript's Number(x) on a form value: null is 0, the empty string is 0,
\* a decimal literal is its value, anything else is NaN.
Number(x) ==
    IF x.isNull \/ x.s = <<>> THEN Num(0)
    ELSE IF x.s[1] = "-"
         THEN LET u == UnsignedLiteral(Tail(x.s))
              IN  IF u.nan THEN NaN ELSE Num(0 - u.v)
         ELSE UnsignedLiteral(x.s)

-----------------------------------------------------------------------------
(* Form validation: FormSchema, CreateInvoice, UpdateInvoice *)

PENDING == <<"p", "e", "n", "d", "i", "n", "g">>

PAID == <<"p", "a", "i", "d">>

StatusEnum == {PENDING, PAID}

\* z.string({invalid_type_error}): any string passes, null does not.
ParseCustomerId(x) ==
    IF x.isNull THEN <<"Please select a customer.">> ELSE <<>>

\* .gte(0) in the place of .gt(0)
gte0(n) == n.v >= 0

\* .gt(0)
gt0(n) == n.v > 0

\* z.coerce.number().gt(0, {message})
ParseAmount(x) ==
    LET n == Number(x)
    IN  IF n.nan THEN <<"Expected number, received nan">>
        ELSE IF gt0(n) THEN <<>>
        ELSE <<"Please enter an amount greater than $0.">>

\* z.enum(['pending', 'paid'], {invalid_type_error})
ParseStatus(x) ==
    IF x.isNull THEN <<"Please select an invoice status.">>
    ELSE IF x.s \in StatusEnum THEN <<>>
    ELSE <<"Invalid enum value. Expected 'pending' | 'paid'">>

\* The issues of each field of FormSchema.omit({id, date}).
FieldIssues(f) ==
    [customerId |-> ParseCustomerId(f.customerId),
     amount     |-> ParseAmount(f.amount),
     status     |-> ParseStatus(f.status)]

FieldNames == {"customerId", "amount", "status"}

\* safeParse: success with the parsed data, or error.flatten().fieldErrors,
\* which has a key for each field with issues and no other.
safeParse(f) ==
    LET issues == FieldIssues(f)
        bad    == {k \in FieldNames : issues[k] # <<>>}
    IN  [success     |-> bad = {},
         fieldErrors |-> [k \in bad |-> issues[k]],
         data        |-> [customerId |-> f.customerId.s,
                          amount     |-> Number(f.amount).v,
                          status     |-> f.status.s]]

-----------------------------------------------------------------------------
(* What a handler does *)

NoErrors == [k \in {} |-> <<>>]

NoUser == [id |-> 0, email |-> <<>>, password |-> [salt |-> 0, digest |-> <<>>]]

\* Nothing has run.
RetNone ==
    [kind |-> "none", type |-> "none", message |-> "", errors |-> NoErrors,
     user |-> NoUser]

\* return { errors, message }
RetErrors(errors, message) ==
    [kind |-> "return", type |-> "errors+message", message |-> message,
     errors |-> errors, user |-> NoUser]

\* return { message }
RetMessage(message) ==
    [kind |-> "return", type |-> "message", message |-> message,
     errors |-> NoErrors, user |-> NoUser]

\* return 'a string'
RetString(message) ==
    [kind |-> "return", type |-> "string", message |-> message,
     errors |-> NoErrors, user |-> NoUser]

\* The function ends without a return statement.
RetUndefined ==
    [kind |-> "return", type |-> "undefined", message |-> "",
     errors |-> NoErrors, user |-> NoUser]

\* return null
RetNull ==
    [kind |-> "return", type |-> "null", message |-> "", errors |-> NoErrors,
     user |-> NoUser]

\* return user
RetUser(u) ==
    [kind |-> "return", type |-> "user", message |-> "", errors |-> NoErrors,
     user |-> u]

\* An error leaves the function.
RetThrow(message) ==
    [kind |-> "throw", type |-> "error", message |-> message,
     errors |-> NoErrors, user |-> NoUser]

\* redirect(path) ends the function: control passes to the framework.
RetRedirect(path) ==
    [kind |-> "redirect", type |-> "redirect", message |-> path,
     errors |-> NoErrors, user |-> NoUser]

\* The queries of fetchCardData, in the order of the array given to
\* Promise.all.
CardQueries == <<"invoiceCount", "customerCount", "invoiceStatus">>

\* No query of fetchCardData has been started.
NoPromises ==
    [q \in {CardQueries[i] : i \in 1..3} |-> [state |-> "unstarted", rows |-> <<>>]]

\* fetchCardData has returned nothing.
NoCardData ==
    [numberOfCustomers |-> NaN, numberOfInvoices |-> NaN,
     totalPaidInvoices |-> <<>>, totalPendingInvoices |-> <<>>]

\* A call that is not fetchCardData leaves its queries and result alone.
NoCard == UNCHANGED <<promises, settled, retCard>>

InvoicesPath == "/dashboard/invoices"

Sql(stmt) == [call |-> "sql", arg |-> stmt]

Revalidate == [call |-> "revalidatePath", arg |-> InvoicesPath]

Redirect == [call |-> "redirect", arg |-> InvoicesPath]

-----------------------------------------------------------------------------
(* The invoices table and the statements of the mutation layer *)

InvoiceIds == 1..MaxInvoices

NoRows == [i \in {} |-> 0]

\* INSERT INTO invoices (customer_id, amount, status, date) VALUES (...):
\* the database gives the new row the id it generates.
InsertRow(t, id, customerId, amount, status, date) ==
    [i \in DOMAIN t \cup {id} |->
        IF i = id
        THEN [customer_id |-> customerId, amount |-> amount,
              status |-> status, date |-> date]
        ELSE t[i]]

\* UPDATE invoices SET customer_id, amount, status WHERE id = ...
UpdateRow(t, id, customerId, amount, status) ==
    [i \in DOMAIN t |->
        IF i = id
        THEN [t[i] EXCEPT !.customer_id = customerId, !.amount = amount,
                          !.status = status]
        ELSE t[i]]

\* DELETE FROM invoices, the WHERE clause lost
DeleteAllRows(t, id) == [i \in {} |-> t[i]]

\* DELETE FROM invoices WHERE id = ...
DeleteRow(t, id) == [i \in DOMAIN t \ {id} |-> t[i]]

\* const amountInCents = amount * 100;
amountInCents(amount) == amount * 100

\* new Date().toISOString().split('T')[0]
IsoDate(instant) == SubSeq(instant, 1, IndexOf(instant, "T") - 1)

\* The two calls in the other order.
RedirectThenRevalidate == <<Redirect, Revalidate>>

\* revalidatePath('/dashboard/invoices'); redirect('/dashboard/invoices');
SuccessEffects == <<Revalidate, Redirect>>

-----------------------------------------------------------------------------
(* Inputs of the mutation layer *)

Customer1 == <<"c", "1">>

CustomerIdInputs == {Null, Str(<<>>), Str(Customer1)}

AmountInputs ==
    {Null, Str(<<"0">>), Str(<<"-", "5">>), Str(<<"x">>), Str(<<"1", "0">>),
     Str(<<"1", ".", "0", "0", "5">>)}

StatusInputs == {Null, Str(PENDING), Str(PAID), Str(<<"d", "r", "a", "f", "t">>)}

Forms == [customerId : CustomerIdInputs, amount : AmountInputs,
          status : StatusInputs]

NoForm == [customerId |-> Null, amount |-> Null, status |-> Null]

Instants ==
    {<<"2", "0", "2", "4", "-", "0", "3", "-", "0", "9", "T", "2", "3", ":",
       "5", "9", ":", "5", "9", ".", "9", "9", "9", "Z">>,
     <<"2", "0", "2", "4", "-", "1", "1", "-", "3", "0", "T", "0", "0", ":",
       "0", "0", ":", "0", "0", ".", "0", "0", "0", "Z">>}

NoCreds == [email |-> Null, password |-> Null]

NoSignIn == [class |-> "none", type |-> ""]

\* What a call leaves alone when it is not a read of the query layer.
NoRead ==
    /\ query' = <<>>
    /\ page' = 0
    /\ retRows' = <<>>
    /\ retPages' = 0

-----------------------------------------------------------------------------
(* The mutation layer *)

createInvoice(f, ok) ==
    /\ pc = "idle"
    /\ pc' = "done"
    /\ NoCard
    /\ op' = "createInvoice"
    /\ argId' = 0
    /\ form' = f
    /\ dbOk' = ok
    /\ before' = invoices
    /\ UNCHANGED <<now, creds, signInRes>>
    /\ NoRead
    /\ LET validatedFields == safeParse(f)
       IN  IF ~validatedFields.success
           THEN /\ ok    \* no statement is issued: nothing of it can fail
                /\ ret' = RetErrors(validatedFields.fieldErrors,
                                    "Missing Fields. Failed to Create Invoice.")
                /\ effects' = <<>>
                /\ UNCHANGED invoices
           ELSE LET d    == validatedFields.data
                    date == IsoDate(now)
                IN  IF ok
                    THEN /\ Cardinality(DOMAIN invoices) < MaxInvoices
                         /\ \E id \in InvoiceIds \ DOMAIN invoices :
                                invoices' = InsertRow(invoices, id, d.customerId,
                                                amountInCents(d.amount),
                                                d.status, date)
                         /\ effects' = <<Sql("INSERT")>> \o SuccessEffects
                         /\ ret' = RetRedirect(InvoicesPath)
                    ELSE /\ UNCHANGED invoices
                         /\ effects' = <<Sql("INSERT")>>
                         /\ ret' = RetMessage(
                                "Database Error: Failed to Create Invoice.")

updateInvoice(id, f, ok) ==
    /\ pc = "idle"
    /\ pc' = "done"
    /\ NoCard
    /\ op' = "updateInvoice"
    /\ argId' = id
    /\ form' = f
    /\ dbOk' = ok
    /\ before' = invoices
    /\ UNCHANGED <<now, creds, signInRes>>
    /\ NoRead
    /\ LET validatedFields == safeParse(f)
       IN  IF ~validatedFields.success
           THEN /\ ok    \* no statement is issued: nothing of it can fail
                /\ ret' = RetErrors(validatedFields.fieldErrors,
                                    "Missing Fields. Failed to Update Invoice.")
                /\ effects' = <<>>
                /\ UNCHANGED invoices
           ELSE LET d == validatedFields.data
                IN  IF ok
                    THEN /\ invoices' = UpdateRow(invoices, id, d.customerId,
                                            amountInCents(d.amount), d.status)
                         /\ effects' = <<Sql("UPDATE")>> \o SuccessEffects
                         /\ ret' = RetRedirect(InvoicesPath)
                    ELSE /\ UNCHANGED invoices
                         /\ effects' = <<Sql("UPDATE")>>
                         /\ ret' = RetMessage(
                                "Database Error: Failed to Update Invoice.")

deleteInvoice(id, ok) ==
    /\ pc = "idle"
    /\ pc' = "done"
    /\ NoCard
    /\ op' = "deleteInvoice"
    /\ argId' = id
    /\ form' = NoForm
    /\ dbOk' = ok
    /\ before' = invoices
    /\ UNCHANGED <<now, creds, signInRes>>
    /\ NoRead
    /\ IF ok
       THEN /\ invoices' = DeleteRow(invoices, id)
            /\ effects' = <<Sql("DELETE"), Revalidate>>
            /\ ret' = RetMessage("Deleted Invoice")
       ELSE /\ UNCHANGED invoices
            /\ effects' = <<Sql("DELETE")>>
            /\ ret' = RetMessage("Database Error: Failed to Delete Invoice.")

-----------------------------------------------------------------------------
(* The credentials adapter *)

LowerLetters ==
    <<"a", "b", "c", "d", "e", "f", "g", "h", "i", "j", "k", "l", "m", "n",
      "o", "p", "q", "r", "s", "t", "u", "v", "w", "x", "y", "z">>

IsLetter(c) == \E i \in 1..Len(LowerLetters) : LowerLetters[i] = Lower(c)

IsAlnum(c) == IsLetter(c) \/ IsDigit(c)

\* The parts of s between the occurrences of c.
RECURSIVE Split(_, _)
Split(s, c) ==
    LET i == IndexOf(s, c)
    IN  IF i = 0 THEN <<s>>
        ELSE <<SubSeq(s, 1, i - 1)>> \o Split(SubSeq(s, i + 1, Len(s)), c)

\* z.string().email(): a local part of letters, digits and _ ' + - . that
\* neither starts nor ends with a dot nor ends with a quote, no two dots in a
\* row, one @, then dot-separated labels and a top-level name of at least two
\* letters.
IsEmail(s) ==
    LET at     == IndexOf(s, "@")
        local  == SubSeq(s, 1, at - 1)
        domain == SubSeq(s, at + 1, Len(s))
        labels == Split(domain, ".")
        n      == Len(labels)
    IN  /\ at > 1
        /\ s[1] # "."
        /\ \A i \in 1..(Len(s) - 1) : ~(s[i] = "." /\ s[i + 1] = ".")
        /\ \A i \in 1..Len(local) :
              IsAlnum(local[i]) \/ local[i] \in {"_", "'", "+", "-", "."}
        /\ local[Len(local)] \notin {".", "'"}
        /\ n >= 2
        /\ \A k \in 1..(n - 1) :
              /\ labels[k] # <<>>
              /\ IsAlnum(labels[k][1])
              /\ \A i \in 1..Len(labels[k]) :
                    IsAlnum(labels[k][i]) \/ labels[k][i] = "-"
        /\ Len(labels[n]) >= 2
        /\ \A i \in 1..Len(labels[n]) : IsLetter(labels[n][i])

\* z.object({ email: z.string().email(), password: z.string().min(6) })
CredentialsOk(c) ==
    /\ ~c.email.isNull
    /\ IsEmail(c.email.s)
    /\ ~c.password.isNull
    /\ Len(c.password.s) >= 6

\* A salted one-way hash, taken as collision free: the digest is determined
\* by the salt and the password and by nothing else.
bcryptHash(salt, password) == [salt |-> salt, digest |-> password]

\* bcrypt.compare(password, hash): hash the password with the salt of the
\* stored hash and compare.
bcryptCompare(password, hash) == bcryptHash(hash.salt, password) = hash

UserEmail == <<"u", "@", "n", ".", "i", "o">>

UserPassword == <<"1", "2", "3", "4", "5", "6">>

\* The users table.
OtherEmail == <<"p", "@", "n", ".", "i", "o">>

OtherPassword == <<"6", "5", "4", "3", "2", "1">>

Users ==
    <<[id |-> 1, email |-> UserEmail,
       password |-> bcryptHash(7, UserPassword)],
      [id |-> 2, email |-> OtherEmail,
       password |-> bcryptHash(9, OtherPassword)]>>

\* SELECT * FROM users WHERE email = $1
SelectUsers(email) == SelectSeq(Users, LAMBDA u : u.email = email)

EmailInputs ==
    {Null, Str(UserEmail), Str(OtherEmail), Str(<<"g", "@", "n", ".", "i", "o">>),
     Str(<<"U", "@", "n", ".", "i", "o">>), Str(<<"u", "@", "n">>),
     Str(<<"u", ".", "i", "o">>)}

PasswordInputs ==
    {Null, Str(UserPassword), Str(<<"1", "2", "3", "4", "5">>),
     Str(OtherPassword)}

Credentials == [email : EmailInputs, password : PasswordInputs]

\* authorize without the comparison of the password.
CheckNothing(rows, password) ==
    IF rows = <<>> THEN RetNull ELSE RetUser(rows[1])

\* What authorize returns once the user row is in hand.
CheckPassword(rows, password) ==
    IF rows = <<>> THEN RetNull
    ELSE IF bcryptCompare(password, rows[1].password) THEN RetUser(rows[1])
    ELSE RetNull

\* authorize(credentials), with getUser(email) inside it.
authorize(c, ok) ==
    /\ pc = "idle"
    /\ pc' = "done"
    /\ NoCard
    /\ op' = "authorize"
    /\ argId' = 0
    /\ form' = NoForm
    /\ creds' = c
    /\ dbOk' = ok
    /\ before' = invoices
    /\ UNCHANGED <<invoices, now, signInRes>>
    /\ NoRead
    /\ IF CredentialsOk(c)
       THEN /\ effects' = <<Sql("SELECT users")>>
            /\ ret' = IF ok
                      THEN CheckPassword(SelectUsers(c.email.s), c.password.s)
                      ELSE RetThrow("Failed to fetch user.")
       ELSE /\ ok    \* no query is issued: nothing of it can fail
            /\ effects' = <<>>
            /\ ret' = RetNull

\* What signIn('credentials', formData) can do: return, throw an AuthError of
\* some type, or throw anything else (the framework's redirect signal is one).
SignInOutcomes ==
    {[class |-> "returns", type |-> ""],
     [class |-> "AuthError", type |-> "CredentialsSignin"],
     [class |-> "AuthError", type |-> "CallbackRouteError"],
     [class |-> "AuthError", type |-> "AccessDenied"],
     [class |-> "Error", type |-> "NEXT_REDIRECT"],
     [class |-> "Error", type |-> "TypeError"]}

\* A catch block that turns every error into a string.
CatchEverything(error) ==
    IF error.class = "AuthError" /\ error.type = "CredentialsSignin"
    THEN RetString("Invalid credentials.")
    ELSE RetString("Something went wrong.")

\* The catch block of authenticate.
CatchSignIn(error) ==
    IF error.class = "AuthError"
    THEN IF error.type = "CredentialsSignin"
         THEN RetString("Invalid credentials.")
         ELSE RetString("Something went wrong.")
    ELSE RetThrow(error.type)

authenticate(outcome) ==
    /\ pc = "idle"
    /\ pc' = "done"
    /\ NoCard
    /\ op' = "authenticate"
    /\ argId' = 0
    /\ form' = NoForm
    /\ signInRes' = outcome
    /\ dbOk' = TRUE
    /\ before' = invoices
    /\ effects' = <<[call |-> "signIn", arg |-> "credentials"]>>
    /\ UNCHANGED <<invoices, now, creds>>
    /\ NoRead
    /\ ret' = IF outcome.class = "returns" THEN RetUndefined
              ELSE CatchSignIn(outcome)

\* The request is over: its result has gone to the caller and nothing of it
\* stays in the process.
respond ==
    /\ pc = "done"
    /\ pc' = "idle"
    /\ op' = "none"
    /\ argId' = 0
    /\ form' = NoForm
    /\ creds' = NoCreds
    /\ signInRes' = NoSignIn
    /\ dbOk' = TRUE
    /\ ret' = RetNone
    /\ effects' = <<>>
    /\ before' = invoices
    /\ promises' = NoPromises
    /\ settled' = <<>>
    /\ retCard' = NoCardData
    /\ UNCHANGED <<invoices, now>>
    /\ NoRead

-----------------------------------------------------------------------------
(* The mutation layer and the credentials adapter, one request at a time *)

Init ==
    /\ invoices = NoRows
    /\ now \in Instants
    /\ pc = "idle"
    /\ op = "none"
    /\ argId = 0
    /\ form = NoForm
    /\ creds = NoCreds
    /\ signInRes = NoSignIn
    /\ dbOk = TRUE
    /\ ret = RetNone
    /\ effects = <<>>
    /\ before = invoices
    /\ query = <<>>
    /\ page = 0
    /\ retRows = <<>>
    /\ retPages = 0
    /\ promises = NoPromises
    /\ settled = <<>>
    /\ retCard = NoCardData

Next ==
    \/ \E f \in Forms, ok \in BOOLEAN : createInvoice(f, ok)
    \/ \E id \in InvoiceIds, f \in Forms, ok \in BOOLEAN : updateInvoice(id, f, ok)
    \/ \E id \in InvoiceIds, ok \in BOOLEAN : deleteInvoice(id, ok)
    \/ \E c \in Credentials, ok \in BOOLEAN : authorize(c, ok)
    \/ \E outcome \in SignInOutcomes : authenticate(outcome)
    \/ respond

Spec == Init /\ [][Next]_vars

-----------------------------------------------------------------------------
(* The query layer: filtered, paginated invoices *)

ITEMS_PER_PAGE == 6

\* The customers table: id -> [name, email].
Customer2 == <<"c", "2">>

Customer3 == <<"c", "3">>

Customer9 == <<"c", "9">>

CustomerRows ==
    <<[id |-> Customer1, name |-> <<"A", "m", "y">>,
       email |-> <<"a", "m", "y", "@", "n", ".", "i", "o">>],
      [id |-> Customer2, name |-> <<"E", "d">>,
       email |-> <<"e", "d", "@", "m", ".", "i", "o">>],
      [id |-> Customer3, name |-> <<"P", "a", "t">>,
       email |-> <<"p", "a", "t", "@", "n", ".", "i", "o">>]>>

\* p LIKE-matches s from the left: % is any run of characters, _ is any one
\* character, every other character is itself, letters regardless of case.
RECURSIVE ILike(_, _)
ILike(s, p) ==
    IF p = <<>> THEN s = <<>>
    ELSE IF p[1] = "%"
         THEN ILike(s, Tail(p)) \/ (s # <<>> /\ ILike(Tail(s), p))
    ELSE IF s = <<>> THEN FALSE
    ELSE IF p[1] = "_" THEN ILike(Tail(s), Tail(p))
    ELSE Lower(s[1]) = Lower(p[1]) /\ ILike(Tail(s), Tail(p))

\* "%" + query + "%"
Contains(q) == <<"%">> \o q \o <<"%">>

\* CAST(invoices.amount AS TEXT)
AmountText(v) ==
    NatText(v \div Scale)
        \o (IF v % Scale = 0 THEN <<>>
            ELSE <<".">> \o Pad(NatText(v % Scale), 3))

\* FROM invoices JOIN customers ON invoices.customer_id = customers.id,
\* the invoices read in the order ids: each joined row has the invoice's id
\* and columns and its customer's name and email.
RECURSIVE Joined(_, _)
Joined(t, ids) ==
    IF ids = <<>> THEN <<>>
    ELSE LET i  == ids[1]
             cs == SelectSeq(CustomerRows, LAMBDA c : c.id = t[i].customer_id)
         IN  [k \in 1..Len(cs) |->
                 [id |-> i, amount |-> t[i].amount, date |-> t[i].date,
                  status |-> t[i].status, name |-> cs[k].name,
                  email |-> cs[k].email]]
             \o Joined(t, Tail(ids))

\* The WHERE clause of fetchFilteredInvoices.
FilteredWhere(r, q) ==
    \/ ILike(r.name, Contains(q))
    \/ ILike(r.email, Contains(q))
    \/ ILike(AmountText(r.amount), Contains(q))
    \/ ILike(r.date, Contains(q))
    \/ ILike(r.status, Contains(q))

\* The WHERE clause of fetchInvoicesPages.
PagesWhere(r, q) ==
    \/ ILike(r.name, Contains(q))
    \/ ILike(r.email, Contains(q))
    \/ ILike(AmountText(r.amount), Contains(q))
    \/ ILike(r.date, Contains(q))
    \/ ILike(r.status, Contains(q))

\* A date's place in time: its digits read as one number (yyyymmdd).
DateKey(d) == DigitsValue(SelectSeq(d, IsDigit))

\* ORDER BY invoices.date DESC: rows of equal date stay in the order the
\* database read them.
RECURSIVE InsertByDateDesc(_, _)
InsertByDateDesc(sorted, r) ==
    IF sorted = <<>> THEN <<r>>
    ELSE IF DateKey(sorted[Len(sorted)].date) >= DateKey(r.date)
         THEN Append(sorted, r)
    ELSE Append(InsertByDateDesc(SubSeq(sorted, 1, Len(sorted) - 1), r),
                sorted[Len(sorted)])

RECURSIVE OrderByDateDesc(_)
OrderByDateDesc(rows) ==
    IF rows = <<>> THEN <<>>
    ELSE InsertByDateDesc(OrderByDateDesc(SubSeq(rows, 1, Len(rows) - 1)),
                          rows[Len(rows)])

\* An offset that takes the first page for page 0.
OffsetFromZero(currentPage) == currentPage * ITEMS_PER_PAGE

\* const offset = (currentPage - 1) * ITEMS_PER_PAGE;
Offset(currentPage) == (currentPage - 1) * ITEMS_PER_PAGE

\* LIMIT limit OFFSET offset
LimitOffset(rows, limit, offset) ==
    SubSeq(rows, offset + 1,
           IF Len(rows) < offset + limit THEN Len(rows) ELSE offset + limit)

\* Math.floor in the place of Math.ceil.
TotalPagesFloor(count) ==
    Number(Str(count)).v \div (ITEMS_PER_PAGE * Scale)

\* Math.ceil(Number(count) / ITEMS_PER_PAGE), count being the text of
\* COUNT(*).
TotalPages(count) ==
    LET n == Number(Str(count)).v
        d == ITEMS_PER_PAGE * Scale
    IN  (n + d - 1) \div d

\* The orders in which the database may read the invoices: rows of equal
\* date come out in the order read, which the query does not fix.
RECURSIVE Ascending(_, _)
Ascending(lo, hi) == IF lo > hi THEN <<>> ELSE <<lo>> \o Ascending(lo + 1, hi)

Reverse(s) == [i \in 1..Len(s) |-> s[Len(s) + 1 - i]]

ScanOrders(t) ==
    LET ids == Ascending(1, Cardinality(DOMAIN t))
    IN  {ids, Reverse(ids)}

fetchFilteredInvoices(q, currentPage, scan, ok) ==
    /\ pc = "idle"
    /\ pc' = "done"
    /\ NoCard
    /\ op' = "fetchFilteredInvoices"
    /\ argId' = 0
    /\ form' = NoForm
    /\ dbOk' = ok
    /\ before' = invoices
    /\ query' = q
    /\ page' = currentPage
    /\ retPages' = 0
    /\ effects' = <<Sql("SELECT invoices")>>
    /\ UNCHANGED <<invoices, now, creds, signInRes>>
    /\ IF ok
       THEN /\ retRows' =
                 LimitOffset(
                     OrderByDateDesc(
                         SelectSeq(Joined(invoices, scan),
                                   LAMBDA r : FilteredWhere(r, q))),
                     ITEMS_PER_PAGE, Offset(currentPage))
            /\ ret' = [RetUndefined EXCEPT !.type = "rows"]
       ELSE /\ retRows' = <<>>
            /\ ret' = RetThrow("Failed to fetch invoices.")

fetchInvoicesPages(q, ok) ==
    /\ pc = "idle"
    /\ pc' = "done"
    /\ NoCard
    /\ op' = "fetchInvoicesPages"
    /\ argId' = 0
    /\ form' = NoForm
    /\ dbOk' = ok
    /\ before' = invoices
    /\ query' = q
    /\ page' = 0
    /\ retRows' = <<>>
    /\ effects' = <<Sql("SELECT COUNT(*)")>>
    /\ UNCHANGED <<invoices, now, creds, signInRes>>
    /\ IF ok
       THEN /\ retPages' =
                 TotalPages(NatText(Len(
                     SelectSeq(Joined(invoices,
                                      Ascending(1, Cardinality(DOMAIN invoices))),
                               LAMBDA r : PagesWhere(r, q)))))
            /\ ret' = [RetUndefined EXCEPT !.type = "number"]
       ELSE /\ retPages' = 0
            /\ ret' = RetThrow("Failed to fetch total number of invoices.")

-----------------------------------------------------------------------------
(* The tables and the inputs of the reads *)

\* The tables differ in how customers, amounts, statuses and dates repeat
\* along the rows: layouts 1 .. MaxLayout.
MaxLayout == 3

QueryDates ==
    <<<<"2", "0", "2", "4", "-", "0", "3", "-", "0", "9">>,
      <<"2", "0", "2", "4", "-", "1", "1", "-", "3", "0">>,
      <<"2", "0", "2", "3", "-", "1", "2", "-", "3", "1">>,
      <<"2", "0", "2", "4", "-", "0", "3", "-", "1", "0">>>>

QueryAmounts == <<1000 * Scale, 2050 * Scale, 30399 * Scale>>

\* Every third layout has invoices of a customer that is not in the
\* customers table (the application checks no reference): the JOIN leaves
\* them out.
QueryCustomers(k) ==
    IF k % 3 = 0 THEN <<Customer1, Customer2, Customer3, Customer9>>
    ELSE <<Customer1, Customer2, Customer3>>

QueryTable(n, k) ==
    [i \in 1..n |->
        [customer_id |-> QueryCustomers(k)[((i * k) % Len(QueryCustomers(k))) + 1],
         amount      |-> QueryAmounts[((i + k) % 3) + 1],
         status      |-> IF (i + k) % 2 = 0 THEN PAID ELSE PENDING,
         date        |-> QueryDates[((i * k) % 4) + 1]]]

QueryInputs ==
    {<<>>, <<"P", "A">>, <<"@", "n">>, <<"_", "3">>, <<"z", "z">>,
     <<"-", "0", "3", "-">>}

Pages == 1..MaxPage

QueryInit ==
    /\ invoices \in {QueryTable(n, k) : n \in 0..MaxRows, k \in 1..MaxLayout}
    /\ now \in Instants
    /\ pc = "idle"
    /\ op = "none"
    /\ argId = 0
    /\ form = NoForm
    /\ creds = NoCreds
    /\ signInRes = NoSignIn
    /\ dbOk = TRUE
    /\ ret = RetNone
    /\ effects = <<>>
    /\ before = invoices
    /\ query = <<>>
    /\ page = 0
    /\ retRows = <<>>
    /\ retPages = 0
    /\ promises = NoPromises
    /\ settled = <<>>
    /\ retCard = NoCardData

QueryNext ==
    \/ \E q \in QueryInputs, p \in Pages, ok \in BOOLEAN :
          \E scan \in ScanOrders(invoices) : fetchFilteredInvoices(q, p, scan, ok)
    \/ \E q \in QueryInputs, ok \in BOOLEAN : fetchInvoicesPages(q, ok)
    \/ respond

QuerySpec == QueryInit /\ [][QueryNext]_vars

-----------------------------------------------------------------------------
(* Properties *)

Done(o) == pc = "done" /\ op = o

Mutation == pc = "done" /\ op \in {"createInvoice", "updateInvoice"}

\* The amount the form holds, in dollars, is a number greater than 0.
PositiveAmount(f) == ~Number(f.amount).nan /\ Number(f.amount).v > 0

\* A form the specification calls valid: a customerId string, an amount in
\* dollars greater than 0, a status of pending or paid.
ValidInput(f) ==
    /\ ~f.customerId.isNull
    /\ PositiveAmount(f)
    /\ ~f.status.isNull
    /\ f.status.s \in {PENDING, PAID}

\* round(dollars * 100), in cents.
RoundedCents(dollars) == ((dollars * 100 + Scale \div 2) \div Scale) * Scale

\* An amount at rest that is a positive whole number of cents.
WholeCents(a) == a > 0 /\ a % Scale = 0

\* The rows of t besides id are those of u, unchanged.
SameBesides(t, u, id) ==
    /\ DOMAIN t \ {id} = DOMAIN u \ {id}
    /\ \A i \in DOMAIN t \ {id} : t[i] = u[i]

\* C1: a createInvoice call with valid input whose INSERT succeeds adds
\* exactly one row, whose amount is round(dollars * 100) cents and whose date
\* is today's date, date only.
C1_CreateStoresRoundedCents ==
    (Done("createInvoice") /\ ValidInput(form) /\ dbOk) =>
        \E id \in DOMAIN invoices \ DOMAIN before :
            /\ SameBesides(invoices, before, id)
            /\ invoices[id].amount = RoundedCents(Number(form.amount).v)
            /\ invoices[id].date = SubSeq(now, 1, 10)

\* C2: createInvoice and updateInvoice with an amount that is not a number
\* or is <= 0 return the field errors and a 'Missing Fields...' message,
\* issue no statement, invalidate nothing, redirect nowhere and leave the
\* table as it was.
C2_NonPositiveAmountRejected ==
    (Mutation /\ ~PositiveAmount(form)) =>
        /\ ret.kind = "return"
        /\ ret.type = "errors+message"
        /\ "amount" \in DOMAIN ret.errors
        /\ ret.errors["amount"] # <<>>
        /\ ret.message = (IF op = "createInvoice"
                          THEN "Missing Fields. Failed to Create Invoice."
                          ELSE "Missing Fields. Failed to Update Invoice.")
        /\ effects = <<>>
        /\ invoices = before

\* C2's case: an update of an existing row with the amount "0" and the other
\* fields valid.
C2_Witness ==
    /\ Done("updateInvoice")
    /\ argId \in DOMAIN before
    /\ form = [customerId |-> Str(Customer1), amount |-> Str(<<"0">>),
               status |-> Str(PAID)]
    /\ ret.type = "errors+message"

\* C3: createInvoice and updateInvoice reject an empty customerId (amount and
\* status being valid) as a validation failure, before any statement.
C3_EmptyCustomerIdRejected ==
    (Mutation /\ ValidInput(form) /\ form.customerId.s = <<>>) =>
        /\ ret.type = "errors+message"
        /\ effects = <<>>
        /\ invoices = before

\* C4: every invoice row at rest has an amount that is a positive whole
\* number of cents and a status of pending or paid.
C4_RowsAtRest ==
    \A i \in DOMAIN invoices :
        /\ WholeCents(invoices[i].amount)
        /\ invoices[i].status \in {PENDING, PAID}

\* The credentials are well formed: an email address and a password of at
\* least 6 characters.
WellFormed(c) ==
    /\ ~c.email.isNull /\ IsEmail(c.email.s)
    /\ ~c.password.isNull /\ Len(c.password.s) >= 6

\* The users with the email of the credentials whose stored hash the
\* password of the credentials matches.
MatchingUsers(c) ==
    {Users[k] : k \in {j \in 1..Len(Users) :
                          /\ Users[j].email = c.email.s
                          /\ bcryptCompare(c.password.s, Users[j].password)}}

\* C5: authorize returns a user only for well-formed credentials of an
\* existing user whose stored hash the password matches, and then that user;
\* in every other case in which the lookup does not fail it returns null, and
\* for malformed credentials it returns null without a query.
C5_AuthorizeOnlyOnMatch ==
    Done("authorize") =>
        /\ ret.type = "user" =>
              WellFormed(creds) /\ ret.user \in MatchingUsers(creds)
        /\ (ret.kind # "throw" /\ ~(WellFormed(creds) /\ MatchingUsers(creds) # {}))
              => ret = RetNull
        /\ ~WellFormed(creds) => (ret = RetNull /\ effects = <<>>)
        /\ ret.kind = "throw" => ~dbOk

\* C5's case: the password of another user, given with the email of a user.
C5_Witness ==
    /\ Done("authorize")
    /\ creds = [email |-> Str(UserEmail), password |-> Str(OtherPassword)]
    /\ dbOk
    /\ ret = RetNull
    /\ effects # <<>>

\* C6: authenticate returns 'Invalid credentials.' for an AuthError of type
\* CredentialsSignin, 'Something went wrong.' for an AuthError of any other
\* type, throws again what is no AuthError, and returns no other string.
C6_AuthenticateNarrows ==
    Done("authenticate") =>
        /\ (signInRes.class = "AuthError" /\ signInRes.type = "CredentialsSignin")
              => ret = RetString("Invalid credentials.")
        /\ (signInRes.class = "AuthError" /\ signInRes.type # "CredentialsSignin")
              => ret = RetString("Something went wrong.")
        /\ signInRes.class = "Error"
              => ret = RetThrow(signInRes.type)
        /\ ret.type = "string"
              => ret.message \in {"Invalid credentials.", "Something went wrong."}

\* C6's case: signIn threw what is no AuthError, and it left authenticate.
C6_Witness ==
    /\ Done("authenticate")
    /\ signInRes = [class |-> "Error", type |-> "TypeError"]
    /\ ret.kind = "throw"

\* The statement of a mutation.
StatementOf(o) == IF o = "createInvoice" THEN Sql("INSERT") ELSE Sql("UPDATE")

\* C7: createInvoice and updateInvoice with valid input invalidate the
\* invoices listing and redirect to it only after the statement succeeded, in
\* the order statement, invalidation, redirect; when the statement fails they
\* return a 'Database Error: ...' message, throw nothing, invalidate nothing
\* and redirect nowhere.
C7_StatementThenInvalidateThenRedirect ==
    (Mutation /\ ValidInput(form)) =>
        IF dbOk
        THEN /\ effects = <<StatementOf(op), Revalidate, Redirect>>
             /\ ret = RetRedirect("/dashboard/invoices")
        ELSE /\ effects = <<StatementOf(op)>>
             /\ ret.kind = "return"
             /\ ret.message = (IF op = "createInvoice"
                               THEN "Database Error: Failed to Create Invoice."
                               ELSE "Database Error: Failed to Update Invoice.")
             /\ invoices = before

\* C7's case: an UPDATE that succeeded and changed a row.
C7_Witness ==
    /\ Done("updateInvoice")
    /\ dbOk
    /\ invoices # before
    /\ ret.kind = "redirect"
    /\ Len(effects) = 3

\* C8: deleteInvoice returns and does not redirect; when the DELETE succeeds
\* the row of that id is gone, the other rows are as they were, the listing
\* is invalidated and the message is 'Deleted Invoice'; when it fails the
\* table is as it was, nothing is invalidated and the message is 'Database
\* Error: Failed to Delete Invoice.'.
C8_DeleteInvoice ==
    Done("deleteInvoice") =>
        /\ ret.kind = "return"
        /\ \A k \in 1..Len(effects) : effects[k].call # "redirect"
        /\ IF dbOk
           THEN /\ argId \notin DOMAIN invoices
                /\ SameBesides(invoices, before, argId)
                /\ \E k \in 1..Len(effects) : effects[k] = Revalidate
                /\ ret = RetMessage("Deleted Invoice")
           ELSE /\ invoices = before
                /\ \A k \in 1..Len(effects) : effects[k] # Revalidate
                /\ ret = RetMessage("Database Error: Failed to Delete Invoice.")

\* C8's case: a DELETE that succeeded on one of two rows.
C8_Witness ==
    /\ Done("deleteInvoice")
    /\ dbOk
    /\ argId \in DOMAIN before
    /\ Cardinality(DOMAIN before) = 2
    /\ Cardinality(DOMAIN invoices) = 1

\* The invoices, each with its customer, that match q under a WHERE clause.
MatchingRows(t, q, Where(_, _)) ==
    LET rows == Joined(t, Ascending(1, Cardinality(DOMAIN t)))
    IN  {rows[k] : k \in {j \in 1..Len(rows) : Where(rows[j], q)}}

\* C9: fetchInvoicesPages returns the smallest page count p with 6 * p >= n,
\* n being the number of invoices that match: 0 for 0, 3 for 13.
C9_PagesIsCeiling ==
    (Done("fetchInvoicesPages") /\ ret.kind = "return") =>
        LET n == Cardinality(MatchingRows(invoices, query, PagesWhere))
        IN  /\ retPages >= 0
            /\ 6 * retPages >= n
            /\ 6 * (retPages - 1) < n
            /\ n = 0 => retPages = 0
            /\ n = 13 => retPages = 3

\* C9's case: 13 invoices match.
C9_Witness ==
    /\ Done("fetchInvoicesPages")
    /\ ret.kind = "return"
    /\ Cardinality(MatchingRows(invoices, query, PagesWhere)) = 13
    /\ retPages = 3

\* C10: fetchFilteredInvoices(query, p), p >= 1, returns at most 6 invoices:
\* those at the places (p - 1) * 6 + 1 .. p * 6 of the matching invoices in
\* descending order of date.  The row at place g has fewer than g matching
\* invoices of a later date before it and is among the first rows up to its
\* own date; no invoice comes twice.
C10_PageOfMatchesByDateDesc ==
    (Done("fetchFilteredInvoices") /\ ret.kind = "return" /\ page >= 1) =>
        LET m    == MatchingRows(invoices, query, FilteredWhere)
            n    == Cardinality(m)
            skip == (page - 1) * 6
            left == IF n > skip THEN n - skip ELSE 0
        IN  /\ Len(retRows) = (IF left > 6 THEN 6 ELSE left)
            /\ \A j \in 1..Len(retRows) : retRows[j] \in m
            /\ \A j, k \in 1..Len(retRows) :
                  j # k => retRows[j].id # retRows[k].id
            /\ \A j \in 1..Len(retRows) :
                  LET d == DateKey(retRows[j].date)
                  IN  /\ Cardinality({r \in m : DateKey(r.date) > d}) < skip + j
                      /\ Cardinality({r \in m : DateKey(r.date) >= d}) >= skip + j

\* C10's case: page 2 of 13 matching invoices, six rows of it.
C10_Witness ==
    /\ Done("fetchFilteredInvoices")
    /\ ret.kind = "return"
    /\ page = 2
    /\ Cardinality(MatchingRows(invoices, query, FilteredWhere)) = 13
    /\ Len(retRows) = 6
    /\ \E j \in 1..5 : DateKey(retRows[j].date) > DateKey(retRows[j + 1].date)

-----------------------------------------------------------------------------
(* The query layer: the card statistics *)

\* A row of a card query: the columns it does not have are null.
CardRow(count, paid, pending) ==
    [count |-> count, paid |-> paid, pending |-> pending]

\* SUM(CASE WHEN status = s THEN amount ELSE 0 END) over the rows ids of t.
RECURSIVE SumWhen(_, _, _)
SumWhen(t, ids, s) ==
    IF ids = {} THEN 0
    ELSE LET i == CHOOSE j \in ids : TRUE
         IN  (IF t[i].status = s THEN t[i].amount ELSE 0)
                 + SumWhen(t, ids \ {i}, s)

\* SELECT COUNT(*) FROM invoices: one row, the count as text.
InvoiceCountRows(t) ==
    <<CardRow(Str(NatText(Cardinality(DOMAIN t))), Null, Null)>>

\* SELECT COUNT(*) FROM customers
CustomerCountRows == <<CardRow(Str(NatText(Len(CustomerRows))), Null, Null)>>

\* SELECT SUM(...) AS "paid", SUM(...) AS "pending" FROM invoices: one row,
\* the sums as text, null when the table has no row.
InvoiceStatusRows(t) ==
    IF DOMAIN t = {} THEN <<CardRow(Null, Null, Null)>>
    ELSE <<CardRow(Null, Str(AmountText(SumWhen(t, DOMAIN t, PAID))),
                   Str(AmountText(SumWhen(t, DOMAIN t, PENDING))))>>

\* What a card query answers on the table t.
CardAnswer(q, t) ==
    IF q = "invoiceCount" THEN InvoiceCountRows(t)
    ELSE IF q = "customerCount" THEN CustomerCountRows
    ELSE InvoiceStatusRows(t)

\* x ?? d
Coalesce(x, d) == IF x.isNull THEN d ELSE x

\* The digits s with a comma before every group of three from the right.
RECURSIVE Group3(_)
Group3(s) ==
    IF Len(s) <= 3 THEN s
    ELSE Group3(SubSeq(s, 1, Len(s) - 3)) \o <<",">>
             \o SubSeq(s, Len(s) - 2, Len(s))

\* formatCurrency: an amount of cents as US dollars, "$1,234.56".
formatCurrency(x) ==
    LET cents == (Number(x).v + Scale \div 2) \div Scale
    IN  <<"$">> \o Group3(NatText(cents \div 100)) \o <<".">>
            \o Pad(NatText(cents % 100), 2)

\* The answers taken in the order in which the queries completed.
InCompletionOrder(p, order) == [i \in 1..3 |-> p[order[i]].rows]

\* await Promise.all([...]): the answers in the order of the array, whatever
\* the order in which the queries completed.
PromiseAll(p, order) == [i \in 1..3 |-> p[CardQueries[i]].rows]

\* The record fetchCardData builds of the three answers.
CardData(data) ==
    [numberOfCustomers    |-> Number(Coalesce(data[2][1].count, Str(<<"0">>))),
     numberOfInvoices     |-> Number(Coalesce(data[1][1].count, Str(<<"0">>))),
     totalPaidInvoices    |-> formatCurrency(Coalesce(data[3][1].paid, Str(<<"0">>))),
     totalPendingInvoices |-> formatCurrency(Coalesce(data[3][1].pending, Str(<<"0">>)))]

CardQueryNames == {CardQueries[i] : i \in 1..3}

\* fetchCardData up to its await: the three queries are started, one after
\* the other, and the call waits for Promise.all.
fetchCardData ==
    /\ pc = "idle"
    /\ pc' = "awaiting"
    /\ op' = "fetchCardData"
    /\ argId' = 0
    /\ form' = NoForm
    /\ dbOk' = TRUE
    /\ before' = invoices
    /\ ret' = RetNone
    /\ effects' = <<Sql("SELECT COUNT(*) FROM invoices"),
                    Sql("SELECT COUNT(*) FROM customers"),
                    Sql("SELECT SUM(paid), SUM(pending) FROM invoices")>>
    /\ promises' = [q \in CardQueryNames |-> [state |-> "pending", rows |-> <<>>]]
    /\ settled' = <<>>
    /\ retCard' = NoCardData
    /\ UNCHANGED <<invoices, now, creds, signInRes>>
    /\ NoRead

\* A query that was started completes: the database answers it or fails.
settle(q, ok) ==
    /\ op = "fetchCardData"
    /\ promises[q].state = "pending"
    /\ promises' = [promises EXCEPT ![q] =
                       IF ok
                       THEN [state |-> "fulfilled", rows |-> CardAnswer(q, invoices)]
                       ELSE [state |-> "rejected", rows |-> <<>>]]
    /\ settled' = Append(settled, q)
    /\ UNCHANGED <<invoices, now, pc, op, argId, form, creds, dbOk, signInRes,
                   ret, effects, before, query, page, retRows, retPages, retCard>>

\* fetchCardData after its await: Promise.all has rejected, as soon as one
\* query failed, or has fulfilled, once all three were answered.
fetchCardDataResume ==
    /\ pc = "awaiting"
    /\ op = "fetchCardData"
    /\ \/ \E q \in CardQueryNames : promises[q].state = "rejected"
       \/ \A q \in CardQueryNames : promises[q].state = "fulfilled"
    /\ pc' = "done"
    /\ IF \E q \in CardQueryNames : promises[q].state = "rejected"
       THEN /\ dbOk' = FALSE
            /\ ret' = RetThrow("Failed to fetch card data.")
            /\ retCard' = NoCardData
       ELSE /\ dbOk' = TRUE
            /\ ret' = [RetUndefined EXCEPT !.type = "card"]
            /\ retCard' = CardData(PromiseAll(promises, settled))
    /\ UNCHANGED <<invoices, now, op, argId, form, creds, signInRes, effects,
                   before, query, page, retRows, retPages, promises, settled>>

CardNext ==
    \/ fetchCardData
    \/ \E q \in CardQueryNames, ok \in BOOLEAN : settle(q, ok)
    \/ fetchCardDataResume
    \/ respond

CardSpec == QueryInit /\ [][CardNext]_vars

\* The card statistics of the table t.
CardOf(t) ==
    [numberOfCustomers    |-> Num(Len(CustomerRows) * Scale),
     numberOfInvoices     |-> Num(Cardinality(DOMAIN t) * Scale),
     totalPaidInvoices    |->
         formatCurrency(Str(AmountText(SumWhen(t, DOMAIN t, PAID)))),
     totalPendingInvoices |->
         formatCurrency(Str(AmountText(SumWhen(t, DOMAIN t, PENDING))))]

CardCall == op = "fetchCardData" /\ pc \in {"awaiting", "done"}

\* C11: fetchCardData has started its three queries when it waits; it holds
\* no result while it waits; it returns only with all three answered, and
\* then the statistics of the table, whatever the order in which the queries
\* completed; with a query that failed it returns nothing and throws 'Failed
\* to fetch card data.'.
C11_CardDataAfterAllThree ==
    CardCall =>
        /\ \A q \in CardQueryNames : promises[q].state # "unstarted"
        /\ pc = "awaiting" => (ret = RetNone /\ retCard = NoCardData)
        /\ pc = "done" => ret.kind \in {"return", "throw"}
        /\ ret.kind = "return" =>
              /\ \A q \in CardQueryNames : promises[q].state = "fulfilled"
              /\ retCard = CardOf(invoices)
              /\ DOMAIN invoices = {} =>
                    retCard.totalPaidInvoices = <<"$", "0", ".", "0", "0">>
        /\ (pc = "done" /\ \E q \in CardQueryNames : promises[q].state = "rejected")
              => (ret = RetThrow("Failed to fetch card data.")
                  /\ retCard = NoCardData)
        /\ ret.kind = "throw" =>
              \E q \in CardQueryNames : promises[q].state = "rejected"

\* C11's case: the queries completed in the reverse of the order in which
\* they were started, on a table with paid and pending invoices, and the
\* call returned.
C11_Witness ==
    /\ Done("fetchCardData")
    /\ ret.kind = "return"
    /\ settled = <<"invoiceStatus", "customerCount", "invoiceCount">>
    /\ Cardinality(DOMAIN invoices) >= 2
    /\ retCard.totalPaidInvoices # retCard.totalPendingInvoices
    /\ retCard.numberOfInvoices = Num(Cardinality(DOMAIN invoices) * Scale)

====
